---- MODULE Spec2Model ----
(***************************************************************************)
(* Model of src/inventory_system.py: class InventorySystem, an in-memory   *)
(* mapping from item name to quantity with an append-only log and JSON     *)
(* persistence.                                                            *)
(*                                                                         *)
(* Python values are tagged records (PyInt, PyStr, ...).  A dict keeps its *)
(* insertion order, so it is a sequence of key/value entries with unique   *)
(* keys.  A file is a sequence of JSON tokens; json.dump and json.load are *)
(* a serialiser and a recursive-descent parser over those tokens.          *)
(* The timestamp of a log message (datetime.now()) is left out of the log  *)
(* entry: an entry is the pair (qty, item) of "Added {qty} of {item}".     *)
(***************************************************************************)
EXTENDS Integers, Sequences, FiniteSets, TLC

VARIABLES stock_data, logs, disk, last, ledger

vars == <<stock_data, logs, disk, last, ledger>>

(***************************************************************************)
(* Bounds of the model.                                                    *)
(***************************************************************************)
\* Longest log explored: add_item is not called with valid input once the
\* log holds MaxLogs entries.
MaxLogs == 2

(***************************************************************************)
(* Python values.                                                          *)
(***************************************************************************)
PyInt(n) == [t |-> "int", i |-> n]
PyStr(x) == [t |-> "str", s |-> x]
PyBool(x) == [t |-> "bool", b |-> x]
PyNone == [t |-> "none"]
PyList(xs) == [t |-> "list", es |-> xs]
\* kv: sequence of [k |-> name, v |-> value], keys unique, insertion order.
PyDict(entries) == [t |-> "dict", kv |-> entries]

PyTrue == PyBool(TRUE)
PyFalse == PyBool(FALSE)
EmptyDict == PyDict(<<>>)

\* isinstance(v, int): bool is a subclass of int.
IsInstanceInt(v) == v.t \in {"int", "bool"}
IsInstanceStr(v) == v.t = "str"

\* The integer a Python int or bool stands for in arithmetic and comparison.
IntOf(v) == IF v.t = "int" THEN v.i ELSE IF v.b THEN 1 ELSE 0

\* `not v`
Falsy(v) ==
    CASE v.t = "none" -> TRUE
      [] v.t = "int" -> v.i = 0
      [] v.t = "bool" -> ~v.b
      [] v.t = "str" -> v.s = ""
      [] v.t = "list" -> v.es = <<>>
      [] v.t = "dict" -> v.kv = <<>>
      [] OTHER -> FALSE

(***************************************************************************)
(* dict operations on an insertion-ordered dict d (a PyDict).              *)
(***************************************************************************)
Keys(d) == {d.kv[n].k : n \in 1..Len(d.kv)}

HasKey(d, k) == k \in Keys(d)

KeyIndex(d, k) == CHOOSE n \in 1..Len(d.kv) : d.kv[n].k = k

\* d.get(k, default)
DictGet(d, k, default) == IF HasKey(d, k) THEN d.kv[KeyIndex(d, k)].v ELSE default

\* d[k] = v: an existing key keeps its position, a new key goes last.
DictSet(d, k, v) ==
    IF HasKey(d, k)
    THEN PyDict([d.kv EXCEPT ![KeyIndex(d, k)] = [k |-> k, v |-> v]])
    ELSE PyDict(Append(d.kv, [k |-> k, v |-> v]))

\* del d[k]
DictDel(d, k) ==
    LET n == KeyIndex(d, k)
    IN PyDict(SubSeq(d.kv, 1, n - 1) \o SubSeq(d.kv, n + 1, Len(d.kv)))

(***************************************************************************)
(* What a call does: it returns a value or raises past its boundary.       *)
(***************************************************************************)
Return(v) == [kind |-> "return", val |-> v, exc |-> "none"]
Raise(e) == [kind |-> "raise", val |-> PyNone, exc |-> e]

\* The result of a method: the fields after the call and the outcome.
Result(sd, lg, o) == [stock_data |-> sd, logs |-> lg, out |-> o]

(***************************************************************************)
(* InventorySystem.add_item                                                *)
(***************************************************************************)
\* cur + qty for the stored value cur: int and bool add as integers, any
\* other JSON value raises TypeError.
CanAdd(cur) == IsInstanceInt(cur)

\* Faulty variant of add_item: qty <= 0 is not refused.
add_item_unchecked(sd, lg, item, qty) ==
    IF Falsy(item) \/ ~IsInstanceStr(item)
    THEN Result(sd, lg, Return(PyFalse))
    ELSE IF ~IsInstanceInt(qty)
    THEN Result(sd, lg, Return(PyFalse))
    ELSE IF sd.t # "dict"
    THEN Result(sd, lg, Raise("AttributeError"))
    ELSE LET cur == DictGet(sd, item.s, PyInt(0))
         IN IF ~CanAdd(cur)
            THEN Result(sd, lg, Raise("TypeError"))
            ELSE Result(DictSet(sd, item.s, PyInt(IntOf(cur) + IntOf(qty))),
                        Append(lg, [qty |-> qty, item |-> item.s]),
                        Return(PyTrue))

\* Faulty variant of add_item: the quantity is set, not incremented.
add_item_overwrites(sd, lg, item, qty) ==
    IF Falsy(item) \/ ~IsInstanceStr(item)
    THEN Result(sd, lg, Return(PyFalse))
    ELSE IF ~IsInstanceInt(qty) \/ IntOf(qty) <= 0
    THEN Result(sd, lg, Return(PyFalse))
    ELSE IF sd.t # "dict"
    THEN Result(sd, lg, Raise("AttributeError"))
    ELSE Result(DictSet(sd, item.s, PyInt(IntOf(qty))),
                Append(lg, [qty |-> qty, item |-> item.s]),
                Return(PyTrue))

add_item(sd, lg, item, qty) ==
    IF Falsy(item) \/ ~IsInstanceStr(item)
    THEN Result(sd, lg, Return(PyFalse))
    ELSE IF ~IsInstanceInt(qty) \/ IntOf(qty) <= 0
    THEN Result(sd, lg, Return(PyFalse))
    ELSE IF sd.t # "dict"
    THEN Result(sd, lg, Raise("AttributeError"))
    ELSE LET cur == DictGet(sd, item.s, PyInt(0))
         IN IF ~CanAdd(cur)
            THEN Result(sd, lg, Raise("TypeError"))
            ELSE Result(DictSet(sd, item.s, PyInt(IntOf(cur) + IntOf(qty))),
                        Append(lg, [qty |-> qty, item |-> item.s]),
                        Return(PyTrue))

(***************************************************************************)
(* InventorySystem.remove_item                                             *)
(***************************************************************************)
\* The try block of remove_item on a dict that holds item.  cur - qty raises
\* TypeError for a stored value that is no number; the except clause turns
\* it into False before anything is assigned.
remove_present(sd, lg, item, qty) ==
    LET cur == sd.kv[KeyIndex(sd, item.s)].v
    IN IF ~IsInstanceInt(cur)
       THEN Result(sd, lg, Return(PyFalse))
       ELSE LET left == IntOf(cur) - IntOf(qty)
            IN IF left <= 0
               THEN Result(DictDel(sd, item.s), lg, Return(PyTrue))
               ELSE Result(DictSet(sd, item.s, PyInt(left)), lg, Return(PyTrue))

\* Faulty variant of remove_item: an absent item gets a negative entry.
remove_item_creates_entry(sd, lg, item, qty) ==
    IF ~IsInstanceStr(item) \/ ~IsInstanceInt(qty)
    THEN Result(sd, lg, Return(PyFalse))
    ELSE IF IntOf(qty) <= 0
    THEN Result(sd, lg, Return(PyFalse))
    ELSE IF sd.t # "dict"
    THEN Result(sd, lg, Return(PyFalse))
    ELSE IF ~HasKey(sd, item.s)
    THEN Result(DictSet(sd, item.s, PyInt(0 - IntOf(qty))), lg, Return(PyFalse))
    ELSE remove_present(sd, lg, item, qty)

\* When stock_data is no dict (load_data stored another JSON value), the try
\* block returns False on every path: `item not in x` is True or raises
\* TypeError, and x[item] raises TypeError; both handlers return False.
remove_item(sd, lg, item, qty) ==
    IF ~IsInstanceStr(item) \/ ~IsInstanceInt(qty)
    THEN Result(sd, lg, Return(PyFalse))
    ELSE IF IntOf(qty) <= 0
    THEN Result(sd, lg, Return(PyFalse))
    ELSE IF sd.t # "dict"
    THEN Result(sd, lg, Return(PyFalse))
    ELSE IF ~HasKey(sd, item.s)
    THEN Result(sd, lg, Return(PyFalse))
    ELSE remove_present(sd, lg, item, qty)

(***************************************************************************)
(* InventorySystem.get_qty                                                 *)
(***************************************************************************)
get_qty(sd, lg, item) ==
    IF ~IsInstanceStr(item)
    THEN Result(sd, lg, Return(PyInt(0)))
    ELSE IF sd.t # "dict"
    THEN Result(sd, lg, Raise("AttributeError"))
    ELSE Result(sd, lg, Return(DictGet(sd, item.s, PyInt(0))))

(***************************************************************************)
(* InventorySystem.check_low_items                                         *)
(***************************************************************************)
RECURSIVE low_loop(_, _, _, _)

\* The loop over stock_data.items() from entry n on, result so far acc:
\* `qty < threshold` raises TypeError for a value that is no number.
low_loop(kv, n, threshold, acc) ==
    IF n > Len(kv)
    THEN Return(PyList(acc))
    ELSE IF ~IsInstanceInt(kv[n].v)
    THEN Raise("TypeError")
    ELSE IF IntOf(kv[n].v) < IntOf(threshold)
    THEN low_loop(kv, n + 1, threshold, Append(acc, PyStr(kv[n].k)))
    ELSE low_loop(kv, n + 1, threshold, acc)

check_low_items(sd, lg, threshold) ==
    IF ~IsInstanceInt(threshold) \/ IntOf(threshold) < 0
    THEN Result(sd, lg, Return(PyList(<<>>)))
    ELSE IF sd.t # "dict"
    THEN Result(sd, lg, Raise("AttributeError"))
    ELSE Result(sd, lg, low_loop(sd.kv, 1, threshold, <<>>))

(***************************************************************************)
(* InventorySystem.print_data                                              *)
(***************************************************************************)
\* The characters of a name, by code point: each page lists consecutive
\* characters starting at the code point "from".  The pages cover ASCII: tab and
\* line feed, form feed and carriage return, space to underscore, and a to
\* tilde.
CodePages ==
    << [from |-> 9, chars |-> "\t\n"],
       [from |-> 12, chars |-> "\f\r"],
       [from |-> 32, chars |-> " !\"#$%&'()*+,-./0123456789:;<=>?@ABCDEFGHIJKLMNOPQRSTUVWXYZ[\\]^_"],
       [from |-> 97, chars |-> "abcdefghijklmnopqrstuvwxyz{|}~"] >>

\* ord(c) for a one-character string c of the pages.
ord(c) ==
    LET p == CHOOSE n \in 1..Len(CodePages) :
                 \E j \in 1..Len(CodePages[n].chars) :
                     SubSeq(CodePages[n].chars, j, j) = c
        j == CHOOSE j \in 1..Len(CodePages[p].chars) :
                 SubSeq(CodePages[p].chars, j, j) = c
    IN CodePages[p].from + j - 1

\* a < b on str: the first position where a and b differ decides, by code
\* point; a proper prefix is smaller.
RECURSIVE str_lt(_, _)
str_lt(a, b) ==
    IF b = ""
    THEN FALSE
    ELSE IF a = ""
    THEN TRUE
    ELSE IF SubSeq(a, 1, 1) = SubSeq(b, 1, 1)
    THEN str_lt(SubSeq(a, 2, Len(a)), SubSeq(b, 2, Len(b)))
    ELSE ord(SubSeq(a, 1, 1)) < ord(SubSeq(b, 1, 1))

\* sorted() of the entries kv: the keys are unique, so the (item, qty) pairs
\* are ordered by item alone and the quantities are never compared.
RECURSIVE sorted_items(_)
sorted_items(kv) ==
    IF kv = <<>>
    THEN <<>>
    ELSE LET e == kv[Len(kv)]
             rest == sorted_items(SubSeq(kv, 1, Len(kv) - 1))
         IN SelectSeq(rest, LAMBDA r : ~str_lt(e.k, r.k))
              \o <<e>>
              \o SelectSeq(rest, LAMBDA r : str_lt(e.k, r.k))

\* sorted(self.stock_data.items())
report_rows(sd) == sorted_items(sd.kv)

\* f"{qty:5}" raises TypeError for None, a list and a dict.
CanFormat(v) == v.t \in {"int", "bool", "str"}

print_data(sd, lg) ==
    IF Falsy(sd)
    THEN Result(sd, lg, Return(PyNone))
    ELSE IF sd.t # "dict"
    THEN Result(sd, lg, Raise("AttributeError"))
    ELSE LET rows == report_rows(sd)
         IN IF \E n \in 1..Len(rows) : ~CanFormat(rows[n].v)
            THEN Result(sd, lg, Raise("TypeError"))
            ELSE Result(sd, lg, Return(PyNone))

(***************************************************************************)
(* Files.  The text of a file is a sequence of JSON tokens; "nl" is a line *)
(* break followed by i spaces and "sp" a single space.                     *)
(***************************************************************************)
Tok(kind) == [k |-> kind, s |-> "", i |-> 0]
TStr(x) == [k |-> "str", s |-> x, i |-> 0]
TInt(n) == [k |-> "int", s |-> "", i |-> n]
Nl(n) == [k |-> "nl", s |-> "", i |-> n]
Sp == Tok("sp")

\* What a path holds: no file, UTF-8 text, or bytes that are not UTF-8.
NoFile == [enc |-> "absent", toks |-> <<>>]
TextFile(toks) == [enc |-> "utf8", toks |-> toks]
BinaryFile == [enc |-> "invalid", toks |-> <<>>]

\* json.dump(value, f, indent=2): the tokens written for v at nesting
\* depth `level` (in spaces).
RECURSIVE json_encode(_, _)
RECURSIVE encode_elems(_, _, _)
RECURSIVE encode_members(_, _, _)

json_encode(v, level) ==
    CASE v.t = "int" -> <<TInt(v.i)>>
      [] v.t = "bool" -> <<Tok(IF v.b THEN "true" ELSE "false")>>
      [] v.t = "none" -> <<Tok("null")>>
      [] v.t = "str" -> <<TStr(v.s)>>
      [] v.t = "list" ->
            IF v.es = <<>>
            THEN <<Tok("["), Tok("]")>>
            ELSE <<Tok("[")>> \o encode_elems(v.es, 1, level + 2)
                    \o <<Nl(level), Tok("]")>>
      [] v.t = "dict" ->
            IF v.kv = <<>>
            THEN <<Tok("{"), Tok("}")>>
            ELSE <<Tok("{")>> \o encode_members(v.kv, 1, level + 2)
                    \o <<Nl(level), Tok("}")>>

encode_elems(es, n, level) ==
    IF n > Len(es)
    THEN <<>>
    ELSE (IF n > 1 THEN <<Tok(",")>> ELSE <<>>)
            \o <<Nl(level)>> \o json_encode(es[n], level)
            \o encode_elems(es, n + 1, level)

encode_members(kv, n, level) ==
    IF n > Len(kv)
    THEN <<>>
    ELSE (IF n > 1 THEN <<Tok(",")>> ELSE <<>>)
            \o <<Nl(level), TStr(kv[n].k), Tok(":"), Sp>>
            \o json_encode(kv[n].v, level)
            \o encode_members(kv, n + 1, level)

json_dump(v) == json_encode(v, 0)

\* json.load: a recursive-descent parse.  Parsed(v, p): value v read, next
\* token at p.  ParseError: json.JSONDecodeError.
Parsed(v, p) == [ok |-> TRUE, val |-> v, pos |-> p]
ParseError == [ok |-> FALSE, val |-> PyNone, pos |-> 0]

IsKind(toks, p, kind) == p <= Len(toks) /\ toks[p].k = kind

RECURSIVE parse_value(_, _)
RECURSIVE parse_elems(_, _, _)
RECURSIVE parse_members(_, _, _)

parse_value(toks, p) ==
    IF p > Len(toks)
    THEN ParseError
    ELSE CASE toks[p].k = "int" -> Parsed(PyInt(toks[p].i), p + 1)
           [] toks[p].k = "str" -> Parsed(PyStr(toks[p].s), p + 1)
           [] toks[p].k = "true" -> Parsed(PyTrue, p + 1)
           [] toks[p].k = "false" -> Parsed(PyFalse, p + 1)
           [] toks[p].k = "null" -> Parsed(PyNone, p + 1)
           [] toks[p].k = "[" ->
                IF IsKind(toks, p + 1, "]")
                THEN Parsed(PyList(<<>>), p + 2)
                ELSE parse_elems(toks, p + 1, <<>>)
           [] toks[p].k = "{" ->
                IF IsKind(toks, p + 1, "}")
                THEN Parsed(EmptyDict, p + 2)
                ELSE parse_members(toks, p + 1, EmptyDict)
           [] OTHER -> ParseError

parse_elems(toks, p, acc) ==
    LET e == parse_value(toks, p)
    IN IF ~e.ok
       THEN ParseError
       ELSE IF IsKind(toks, e.pos, ",")
       THEN parse_elems(toks, e.pos + 1, Append(acc, e.val))
       ELSE IF IsKind(toks, e.pos, "]")
       THEN Parsed(PyList(Append(acc, e.val)), e.pos + 1)
       ELSE ParseError

\* A repeated key keeps its first position and takes the last value.
parse_members(toks, p, acc) ==
    IF ~(IsKind(toks, p, "str") /\ IsKind(toks, p + 1, ":"))
    THEN ParseError
    ELSE LET e == parse_value(toks, p + 2)
         IN IF ~e.ok
            THEN ParseError
            ELSE IF IsKind(toks, e.pos, ",")
            THEN parse_members(toks, e.pos + 1, DictSet(acc, toks[p].s, e.val))
            ELSE IF IsKind(toks, e.pos, "}")
            THEN Parsed(DictSet(acc, toks[p].s, e.val), e.pos + 1)
            ELSE ParseError

\* Whitespace between tokens is skipped; text after the value is an error.
json_load(toks) ==
    LET text == SelectSeq(toks, LAMBDA x : x.k \notin {"nl", "sp"})
        r == parse_value(text, 1)
    IN IF r.ok /\ r.pos = Len(text) + 1 THEN r ELSE ParseError

(***************************************************************************)
(* Paths.  DefaultPath is a path in the working directory where a file may *)
(* or may not exist; the other FilePaths hold files that were put there    *)
(* before the program started:                                             *)
(*   zero.json    {"apple": 0, "banana": -3}                               *)
(*   ten.json     {"apple": "ten"}                                         *)
(*   list.json    ["apple"]                                                *)
(*   cut.json     {"apple":            (the text ends there)               *)
(*   binary.json  bytes that are not UTF-8                                 *)
(* The parent of "missing/inventory.json" does not exist and "." is a      *)
(* directory.                                                              *)
(***************************************************************************)
DefaultPath == "inventory.json"
FilePaths == {DefaultPath, "zero.json", "ten.json", "list.json", "cut.json", "binary.json"}
Paths == FilePaths \cup {"missing/inventory.json", "."}

PathKind(file) ==
    CASE file \in FilePaths -> "file"
      [] file = "missing/inventory.json" -> "noparent"
      [] file = "." -> "dir"

InitialDisk ==
    [p \in FilePaths |->
        CASE p = "zero.json" ->
                TextFile(<<Tok("{"), TStr("apple"), Tok(":"), Sp, TInt(0), Tok(","), Sp,
                           TStr("banana"), Tok(":"), Sp, TInt(-3), Tok("}")>>)
          [] p = "ten.json" ->
                TextFile(<<Tok("{"), TStr("apple"), Tok(":"), Sp, TStr("ten"), Tok("}")>>)
          [] p = "list.json" -> TextFile(<<Tok("["), TStr("apple"), Tok("]")>>)
          [] p = "cut.json" -> TextFile(<<Tok("{"), TStr("apple"), Tok(":")>>)
          [] p = "binary.json" -> BinaryFile
          [] OTHER -> NoFile]

FileResult(sd, lg, dsk, o) ==
    [stock_data |-> sd, logs |-> lg, disk |-> dsk, out |-> o]

(***************************************************************************)
(* InventorySystem.load_data                                               *)
(***************************************************************************)
\* Faulty variant of load_data: the file is merged into a mapping that
\* holds entries.
load_data_merges(sd, lg, dsk, file) ==
    IF PathKind(file) = "noparent" \/ (PathKind(file) = "file" /\ dsk[file].enc = "absent")
    THEN FileResult(EmptyDict, lg, dsk, Return(PyFalse))
    ELSE IF PathKind(file) = "dir"
    THEN FileResult(sd, lg, dsk, Return(PyFalse))
    ELSE IF dsk[file].enc = "invalid"
    THEN FileResult(sd, lg, dsk, Raise("UnicodeDecodeError"))
    ELSE LET r == json_load(dsk[file].toks)
         IN IF ~r.ok
            THEN FileResult(sd, lg, dsk, Return(PyFalse))
            ELSE IF sd.t = "dict" /\ r.val.t = "dict" /\ sd.kv # <<>>
            THEN FileResult(PyDict(sd.kv \o SelectSeq(r.val.kv, LAMBDA e : ~HasKey(sd, e.k))),
                            lg, dsk, Return(PyTrue))
            ELSE FileResult(r.val, lg, dsk, Return(PyTrue))

\* Faulty variant of load_data: a missing file leaves the mapping alone.
load_data_keeps_on_missing(sd, lg, dsk, file) ==
    IF PathKind(file) = "noparent" \/ (PathKind(file) = "file" /\ dsk[file].enc = "absent")
    THEN FileResult(sd, lg, dsk, Return(PyFalse))
    ELSE IF PathKind(file) = "dir"
    THEN FileResult(sd, lg, dsk, Return(PyFalse))
    ELSE IF dsk[file].enc = "invalid"
    THEN FileResult(sd, lg, dsk, Raise("UnicodeDecodeError"))
    ELSE LET r == json_load(dsk[file].toks)
         IN IF ~r.ok
            THEN FileResult(sd, lg, dsk, Return(PyFalse))
            ELSE FileResult(r.val, lg, dsk, Return(PyTrue))

\* Faulty variant of load_data: every failure empties the mapping.
load_data_resets_on_error(sd, lg, dsk, file) ==
    IF PathKind(file) = "noparent" \/ (PathKind(file) = "file" /\ dsk[file].enc = "absent")
    THEN FileResult(EmptyDict, lg, dsk, Return(PyFalse))
    ELSE IF PathKind(file) = "dir"
    THEN FileResult(EmptyDict, lg, dsk, Return(PyFalse))
    ELSE IF dsk[file].enc = "invalid"
    THEN FileResult(sd, lg, dsk, Raise("UnicodeDecodeError"))
    ELSE LET r == json_load(dsk[file].toks)
         IN IF ~r.ok
            THEN FileResult(EmptyDict, lg, dsk, Return(PyFalse))
            ELSE FileResult(r.val, lg, dsk, Return(PyTrue))

\* open(file, 'r') raises FileNotFoundError when the file or its directory
\* is missing (the mapping is reset) and IsADirectoryError, an IOError, for
\* a directory; reading bytes that are not UTF-8 raises UnicodeDecodeError,
\* which no except clause catches; json.load raises JSONDecodeError before
\* stock_data is assigned.
load_data(sd, lg, dsk, file) ==
    IF PathKind(file) = "noparent" \/ (PathKind(file) = "file" /\ dsk[file].enc = "absent")
    THEN FileResult(EmptyDict, lg, dsk, Return(PyFalse))
    ELSE IF PathKind(file) = "dir"
    THEN FileResult(sd, lg, dsk, Return(PyFalse))
    ELSE IF dsk[file].enc = "invalid"
    THEN FileResult(sd, lg, dsk, Raise("UnicodeDecodeError"))
    ELSE LET r == json_load(dsk[file].toks)
         IN IF ~r.ok
            THEN FileResult(sd, lg, dsk, Return(PyFalse))
            ELSE FileResult(r.val, lg, dsk, Return(PyTrue))

(***************************************************************************)
(* InventorySystem.save_data                                               *)
(***************************************************************************)
\* open(file, 'w') raises an IOError for a directory or a missing parent
\* directory; otherwise the file is replaced by the dump.
save_data(sd, lg, dsk, file) ==
    IF PathKind(file) # "file"
    THEN FileResult(sd, lg, dsk, Return(PyFalse))
    ELSE FileResult(sd, lg, [dsk EXCEPT ![file] = TextFile(json_dump(sd))], Return(PyTrue))

(***************************************************************************)
(* The arguments the operations are called with.                           *)
(***************************************************************************)
Names == {"apple", "banana"}

\* item arguments: two names, the empty string, a number.
ItemArgs == {PyStr("apple"), PyStr("banana"), PyStr(""), PyInt(123)}

\* qty arguments of add_item: negative, zero, two and a string.  Two is the
\* one quantity it accepts here, so that the logs of a given length are few.
AddQtyArgs == {PyInt(-2), PyInt(0), PyInt(2), PyStr("ten")}

\* qty arguments of remove_item: the same and True, which isinstance takes
\* for an int (worth 1).
RemoveQtyArgs == AddQtyArgs \cup {PyTrue}

ThresholdArgs == {PyInt(-1), PyInt(0), PyInt(2), PyInt(5), PyStr("five")}

\* save_data is called with the path it can create and the two it cannot.
SavePaths == {DefaultPath, "missing/inventory.json", "."}

(***************************************************************************)
(* State.                                                                  *)
(*   stock_data, logs: the fields of the InventorySystem instance.         *)
(*   disk:   what each of the FilePaths holds.                             *)
(*   last:   the latest call, its arguments and its outcome.               *)
(*   ledger: history of the remove_item calls since construction: per      *)
(*           name the sum of the quantities of the calls that returned     *)
(*           True (removed) and whether one of them asked for more than    *)
(*           was stored (over).  pure is FALSE once load_data has been     *)
(*           called, after which the history is no longer kept.  (The      *)
(*           quantities added are in logs.)                                *)
(***************************************************************************)
Call(op, a1, a2, o) == [op |-> op, a1 |-> a1, a2 |-> a2, out |-> o]

NoLedger ==
    [pure |-> FALSE, removed |-> [n \in Names |-> 0], over |-> [n \in Names |-> FALSE]]

Init ==
    /\ stock_data = EmptyDict
    /\ logs = <<>>
    /\ disk = InitialDisk
    /\ last = Call("__init__", PyNone, PyNone, Return(PyNone))
    /\ ledger = [NoLedger EXCEPT !.pure = TRUE]

Accepted(r) == r.out = Return(PyTrue)

AddWith(items, qtys) ==
    \E item \in items, qty \in qtys :
        LET r == add_item(stock_data, logs, item, qty)
        IN /\ Len(r.logs) <= MaxLogs
           /\ stock_data' = r.stock_data
           /\ logs' = r.logs
           /\ last' = Call("add_item", item, qty, r.out)
           /\ UNCHANGED <<disk, ledger>>

RemoveWith(items, qtys) ==
    \E item \in items, qty \in qtys :
        LET r == remove_item(stock_data, logs, item, qty)
        IN /\ stock_data' = r.stock_data
           /\ logs' = r.logs
           /\ last' = Call("remove_item", item, qty, r.out)
           /\ ledger' = IF ledger.pure /\ Accepted(r)
                        THEN [ledger EXCEPT
                                !.removed[item.s] = @ + IntOf(qty),
                                !.over[item.s] =
                                    @ \/ IntOf(qty) >
                                            IntOf(DictGet(stock_data, item.s, PyInt(0)))]
                        ELSE ledger
           /\ UNCHANGED disk

LoadFrom(files) ==
    \E file \in files :
        LET r == load_data(stock_data, logs, disk, file)
        IN /\ stock_data' = r.stock_data
           /\ logs' = r.logs
           /\ disk' = r.disk
           /\ last' = Call("load_data", PyStr(file), PyNone, r.out)
           /\ ledger' = NoLedger

Add == AddWith(ItemArgs, AddQtyArgs)

Remove == RemoveWith(ItemArgs, RemoveQtyArgs)

GetQty ==
    \E item \in ItemArgs :
        LET r == get_qty(stock_data, logs, item)
        IN /\ stock_data' = r.stock_data
           /\ logs' = r.logs
           /\ last' = Call("get_qty", item, PyNone, r.out)
           /\ UNCHANGED <<disk, ledger>>

CheckLowItems ==
    \E threshold \in ThresholdArgs :
        LET r == check_low_items(stock_data, logs, threshold)
        IN /\ stock_data' = r.stock_data
           /\ logs' = r.logs
           /\ last' = Call("check_low_items", threshold, PyNone, r.out)
           /\ UNCHANGED <<disk, ledger>>

PrintData ==
    LET r == print_data(stock_data, logs)
    IN /\ stock_data' = r.stock_data
       /\ logs' = r.logs
       /\ last' = Call("print_data", PyNone, PyNone, r.out)
       /\ UNCHANGED <<disk, ledger>>

Load == LoadFrom(Paths)

Save ==
    \E file \in SavePaths :
        LET r == save_data(stock_data, logs, disk, file)
        IN /\ stock_data' = r.stock_data
           /\ logs' = r.logs
           /\ disk' = r.disk
           /\ last' = Call("save_data", PyStr(file), PyNone, r.out)
           /\ UNCHANGED ledger

\* Every operation, every argument.
Next == Add \/ Remove \/ GetQty \/ CheckLowItems \/ PrintData \/ Load \/ Save

Spec == Init /\ [][Next]_vars

\* The runs in which save_data is not called: the files stay as they were
\* found.  save_data changes neither stock_data nor logs, so these runs
\* visit the same instances.
NextMemory == Add \/ Remove \/ GetQty \/ CheckLowItems \/ PrintData \/ Load

SpecMemory == Init /\ [][NextMemory]_vars

\* The runs that build a mapping with accepted add_item and remove_item
\* calls and save and load it at the paths save_data is called with.
AddAccepted == AddWith({PyStr(n) : n \in Names}, {PyInt(2)})

RemoveAccepted == RemoveWith({PyStr(n) : n \in Names}, {PyTrue, PyInt(2)})

LoadSaved == LoadFrom(SavePaths)

NextPersist == AddAccepted \/ RemoveAccepted \/ LoadSaved \/ Save

SpecPersist == Init /\ [][NextPersist]_vars

(***************************************************************************)
(* Vocabulary of the properties.                                           *)
(***************************************************************************)
\* stock_data is a mapping whose values are all integers.
IntValued(sd) ==
    sd.t = "dict" /\ \A n \in 1..Len(sd.kv) : IsInstanceInt(sd.kv[n].v)

\* item is a key of the mapping.
Present(sd, item) == sd.t = "dict" /\ item.t = "str" /\ HasKey(sd, item.s)

\* What getQuantity(name) returns.
Quantity(sd, name) == get_qty(sd, <<>>, PyStr(name)).out

\* The sum of the quantities the log says were added to name.
RECURSIVE Added(_, _)
Added(lg, name) ==
    IF lg = <<>>
    THEN 0
    ELSE (IF Head(lg).item = name THEN IntOf(Head(lg).qty) ELSE 0) + Added(Tail(lg), name)

\* no file exists at the path / reading the path is an I/O error / the file
\* is text that is not JSON
NoFileAt(dsk, file) ==
    PathKind(file) = "noparent" \/ (PathKind(file) = "file" /\ dsk[file].enc = "absent")
ReadError(dsk, file) == PathKind(file) = "dir"
Malformed(dsk, file) ==
    PathKind(file) = "file" /\ dsk[file].enc = "utf8" /\ ~json_load(dsk[file].toks).ok

\* The input add refuses: item empty or not text, qty not an integer or
\* qty <= 0.
InvalidAdd(item, qty) ==
    \/ item.t # "str"
    \/ item.s = ""
    \/ ~IsInstanceInt(qty)
    \/ IntOf(qty) <= 0

\* The mappings of the instances load is called on after a save: the
\* instance that saved, a fresh one, one that holds other entries.
OtherInstance ==
    PyDict(<<[k |-> "banana", v |-> PyInt(7)], [k |-> "cherry", v |-> PyInt(1)]>>)
LoadingInstances == {stock_data, EmptyDict, OtherInstance}

(***************************************************************************)
(* C1: after any sequence of operations every quantity stored in the       *)
(* mapping is a positive integer; no key maps to a value <= 0.             *)
(* Violated: load_data stores whatever the file holds.                     *)
(***************************************************************************)
C1_EveryStoredQuantityIsPositive ==
    stock_data.t = "dict" =>
        \A n \in 1..Len(stock_data.kv) :
            /\ IsInstanceInt(stock_data.kv[n].v)
            /\ IntOf(stock_data.kv[n].v) > 0

(***************************************************************************)
(* C2, as claimed: while only add and remove have been called on an        *)
(* Inventory that started empty, getQuantity(item) is the sum of the       *)
(* quantities added to item minus the sum of the quantities removed.       *)
(* Violated: a remove of more than is stored deletes the entry.            *)
(***************************************************************************)
C2_QuantityIsAddedMinusRemoved ==
    ledger.pure =>
        \A name \in Names :
            Quantity(stock_data, name) =
                Return(PyInt(Added(logs, name) - ledger.removed[name]))

(***************************************************************************)
(* C2, amended: getQuantity(item) is that sum as long as no remove of item *)
(* has asked for more than was stored at the time; once one has, the entry *)
(* was deleted there and getQuantity(item) is greater than the sum (and    *)
(* never negative).                                                        *)
(***************************************************************************)
C2_QuantityIsSumUnlessOverdrawn ==
    ledger.pure =>
        \A name \in Names :
            LET q == Quantity(stock_data, name)
                sum == Added(logs, name) - ledger.removed[name]
            IN /\ q.kind = "return" /\ q.val.t = "int" /\ q.val.i >= 0
               /\ ~ledger.over[name] => q.val.i = sum
               /\ ledger.over[name] => q.val.i > sum

\* C2, witness: one item has had quantities added and removed within its stock and is
\* still stored, another has been overdrawn.
C2_Witness ==
    /\ ledger.pure
    /\ \E name, other \in Names :
        /\ ledger.removed[name] > 0 /\ ~ledger.over[name]
        /\ Quantity(stock_data, name) = Return(PyInt(1))
        /\ ledger.over[other]

(***************************************************************************)
(* C3: remove(item, qty) with an item that is not a key of the mapping     *)
(* returns false and leaves the mapping and the log as they were, for      *)
(* every qty.                                                              *)
(***************************************************************************)
C3_RemoveAbsentChangesNothing ==
    \A item \in ItemArgs, qty \in RemoveQtyArgs :
        ~Present(stock_data, item) =>
            remove_item(stock_data, logs, item, qty) =
                Result(stock_data, logs, Return(PyFalse))

\* C3, witness: remove_item has just refused a positive quantity of a name that is not
\* stored, while another one is.
C3_Witness ==
    /\ last.op = "remove_item" /\ last.out = Return(PyFalse)
    /\ last.a1 = PyStr("banana") /\ last.a2 = PyInt(2)
    /\ IntValued(stock_data)
    /\ Keys(stock_data) = {"apple"}
    /\ logs # <<>>

(***************************************************************************)
(* C4: add(item, qty) with invalid input (item empty or not text, qty not  *)
(* an integer or qty <= 0) returns false and changes neither the mapping   *)
(* nor the log.                                                            *)
(***************************************************************************)
C4_InvalidAddChangesNothing ==
    \A item \in ItemArgs, qty \in AddQtyArgs \cup RemoveQtyArgs \cup {PyFalse} :
        InvalidAdd(item, qty) =>
            add_item(stock_data, logs, item, qty) =
                Result(stock_data, logs, Return(PyFalse))

\* C4, witness: add_item has just refused a negative quantity of a stored item, whose
\* quantity is what it was.
C4_Witness ==
    /\ last = Call("add_item", PyStr("apple"), PyInt(-2), Return(PyFalse))
    /\ Quantity(stock_data, "apple") = Return(PyInt(4))
    /\ Len(logs) = 2

(***************************************************************************)
(* C5: remove(item, qty) with a present item and qty > 0 returns true; if  *)
(* stored - qty > 0 the item's quantity becomes that difference, otherwise *)
(* the key is deleted and getQuantity(item) is 0; the other items and the  *)
(* log are unchanged.                                                      *)
(* Violated: for a present item whose stored value load_data read as a     *)
(* string, the subtraction raises TypeError and remove_item returns False. *)
(***************************************************************************)
C5_RemovePresent ==
    \A name \in Names, qty \in RemoveQtyArgs :
        ( /\ IsInstanceInt(qty) /\ IntOf(qty) > 0
          /\ Present(stock_data, PyStr(name)) ) =>
            LET r == remove_item(stock_data, logs, PyStr(name), qty)
                left == IntOf(DictGet(stock_data, name, PyNone)) - IntOf(qty)
            IN /\ r.out = Return(PyTrue)
               /\ r.logs = logs
               /\ r.stock_data.t = "dict"
               /\ left > 0 => /\ HasKey(r.stock_data, name)
                              /\ Quantity(r.stock_data, name) = Return(PyInt(left))
               /\ left <= 0 => /\ ~HasKey(r.stock_data, name)
                               /\ Quantity(r.stock_data, name) = Return(PyInt(0))
               /\ Keys(r.stock_data) \ {name} = Keys(stock_data) \ {name}
               /\ \A k \in Keys(stock_data) \ {name} :
                    DictGet(r.stock_data, k, PyNone) = DictGet(stock_data, k, PyNone)

(***************************************************************************)
(* C6: a successful save(path) followed by load(path) with no mutation in  *)
(* between returns true and leaves the mapping identical to the one saved, *)
(* whether load is called on the same instance, on a fresh one or on one   *)
(* holding other entries (load replaces, it does not merge).               *)
(***************************************************************************)
C6_SaveThenLoadRoundTrip ==
    (last.op = "save_data" /\ last.out = Return(PyTrue)) =>
        \A sd \in LoadingInstances :
            LET r == load_data(sd, logs, disk, last.a1.s)
            IN /\ r.out = Return(PyTrue)
               /\ r.stock_data = stock_data

\* C6, witness: load_data has just returned True with a mapping of two items: the file
\* at DefaultPath is one save_data wrote.
C6_Witness ==
    /\ last = Call("load_data", PyStr(DefaultPath), PyNone, Return(PyTrue))
    /\ Keys(stock_data) = Names
    /\ disk[DefaultPath] = TextFile(json_dump(stock_data))

(***************************************************************************)
(* C7: load from a path where no file exists returns false and leaves the  *)
(* mapping empty, whatever it held before.                                 *)
(***************************************************************************)
C7_LoadMissingFileEmptiesMapping ==
    \A file \in Paths :
        NoFileAt(disk, file) =>
            load_data(stock_data, logs, disk, file) =
                FileResult(EmptyDict, logs, disk, Return(PyFalse))

\* C7, witness: load_data has just returned False for the missing file, after items
\* were added, and the mapping is empty.
C7_Witness ==
    /\ last = Call("load_data", PyStr(DefaultPath), PyNone, Return(PyFalse))
    /\ Len(logs) = 2
    /\ stock_data = EmptyDict

(***************************************************************************)
(* C8: checkLowItems(threshold) with a non-negative integer threshold      *)
(* returns exactly the items whose stored quantity is strictly less than   *)
(* threshold, each once; with an invalid threshold it returns an empty     *)
(* list; mapping and log are unchanged.                                    *)
(* Violated: after load_data has stored a string as a quantity, or a JSON  *)
(* value that is no object, check_low_items raises TypeError or            *)
(* AttributeError and returns nothing.                                     *)
(***************************************************************************)
C8_CheckLowItems ==
    \A threshold \in ThresholdArgs :
        LET r == check_low_items(stock_data, logs, threshold)
        IN /\ r.stock_data = stock_data
           /\ r.logs = logs
           /\ IF IsInstanceInt(threshold) /\ IntOf(threshold) >= 0
              THEN /\ r.out.kind = "return"
                   /\ r.out.val.t = "list"
                   /\ {r.out.val.es[n] : n \in 1..Len(r.out.val.es)} =
                        {PyStr(k) : k \in {x \in Keys(stock_data) :
                           IntOf(DictGet(stock_data, x, PyNone)) < IntOf(threshold)}}
                   /\ \A m, n \in 1..Len(r.out.val.es) :
                        r.out.val.es[m] = r.out.val.es[n] => m = n
              ELSE r.out = Return(PyList(<<>>))

(***************************************************************************)
(* C9: no public operation ever raises past its own boundary.              *)
(* Violated: load_data lets UnicodeDecodeError through, and after it has   *)
(* stored a JSON value that is no mapping of integers the other            *)
(* operations raise AttributeError or TypeError.                           *)
(***************************************************************************)
C9_NoCallRaises == last.out.kind = "return"

(***************************************************************************)
(* C10: a load that fails on malformed JSON or on an I/O error while       *)
(* reading returns false and leaves the mapping as it was; a load that     *)
(* returns false and changes the mapping is one of a missing file.         *)
(***************************************************************************)
C10_FailedLoadKeepsMapping ==
    \A file \in Paths :
        LET r == load_data(stock_data, logs, disk, file)
        IN /\ (Malformed(disk, file) \/ ReadError(disk, file)) =>
                r = FileResult(stock_data, logs, disk, Return(PyFalse))
           /\ (r.out = Return(PyFalse) /\ r.stock_data # stock_data) =>
                NoFileAt(disk, file)

\* C10, witness: load_data has just returned False for the file cut short, and the
\* mapping still holds its item.
C10_Witness ==
    /\ last = Call("load_data", PyStr("cut.json"), PyNone, Return(PyFalse))
    /\ Quantity(stock_data, "apple") = Return(PyInt(2))

====
